---------------------------- MODULE Spec2Model ----------------------------
(***************************************************************************)
(* Reference-counted shared_ptr / weak_ptr with two control-block          *)
(* variants (src/shared-ptr.h, src/shared_ptr.cpp).                        *)
(*                                                                         *)
(* The state is a client program's heap: the control blocks it has         *)
(* allocated, its strong pointer objects (sp), its weak pointer objects    *)
(* (wp), and, inside every payload, one weak_ptr member (link) that the    *)
(* payload's destructor destroys.  Every action is one statement of the    *)
(* client: a constructor, an assignment, a member call or a destructor,    *)
(* executed to completion with all the calls it makes.  A behaviour is a   *)
(* client program; its final statement may be observed, and is then        *)
(* recorded in last together with the state it started from.               *)
(***************************************************************************)
EXTENDS Integers, Sequences, FiniteSets, TLC

\* Bounds of the client program: pointer objects and blocks it may create.
MaxStrong == 2
MaxWeak == 2
MaxBlocks == 2

\* int is 32 bits wide (return type of control_block::get_strong_count).
INT_MAX == 2147483647

VARIABLES
    blk,      \* control blocks, by identity
    sp,       \* strong pointer objects
    wp,       \* weak pointer objects
    last,     \* the observed statement: name, operands, outcome, calls, state before
    status    \* "running", "observed", "terminated" (std::terminate),
              \* "segv" (a null block pointer was dereferenced)

vars == <<blk, sp, wp, last, status>>

Strong == 1..MaxStrong
Weak == 1..MaxWeak
Blocks == 1..MaxBlocks
\* Addresses: 0 is nullptr, b is the payload of block b, SubObject is the
\* address of a member object handed to the aliasing constructor.
SubObject == MaxBlocks + 1
Addr == 0..SubObject
Deleters == {"default", "custom"}

\* A pointer's two fields (shared-ptr.h:213-214 and 313-314).
NullPtr == [block |-> 0, ptr |-> 0]
Ptr(b, a) == [block |-> b, ptr |-> a]
\* A pointer object of the client: not live before construction and after destruction.
Dead == [live |-> FALSE, block |-> 0, ptr |-> 0]
Obj(v) == [live |-> TRUE, block |-> v.block, ptr |-> v.ptr]
Val(o) == [block |-> o.block, ptr |-> o.ptr]

NoBlock ==
    [st |-> "unalloc", kind |-> "none", counter |-> 0, weak_counter |-> 0,
     ptr |-> 0, del |-> "none", link |-> NullPtr,
     nDel |-> 0, nFree |-> 0, nCustom |-> 0, nDefault |-> 0, nDtor |-> 0]

Ev(e, b, a) == [e |-> e, b |-> b, a |-> a]
Log(M, e, b, a) == [M EXCEPT !.ev = Append(@, Ev(e, b, a))]

-----------------------------------------------------------------------------
(* control_block *)

\* a constructor that starts the weak count at 1
control_block_ctor_weak_one(rec) == [rec EXCEPT !.st = "live", !.counter = 1, !.weak_counter = 1]

\* control_block::control_block(): counter(1), weak_counter(0)
control_block_ctor(rec) == [rec EXCEPT !.st = "live", !.counter = 1, !.weak_counter = 0]

inc_ref(M, b) == Log([M EXCEPT !.blk[b].counter = @ + 1], "inc_ref", b, 0)

inc_weak_ref(M, b) == Log([M EXCEPT !.blk[b].weak_counter = @ + 1], "inc_weak_ref", b, 0)

\* delete this
delete_this(M, b) ==
    Log([M EXCEPT !.blk[b].st = "freed", !.blk[b].nFree = @ + 1], "delete_this", b, 0)

dec_weak_ref(M, b) ==
    LET M1 == Log([M EXCEPT !.blk[b].weak_counter = @ - 1], "dec_weak_ref", b, 0)
    IN  IF M1.blk[b].weak_counter = 0 /\ M1.blk[b].counter = 0
        THEN delete_this(M1, b)
        ELSE M1

\* weak_ptr::~weak_ptr on a weak pointer with fields v
weak_ptr_dtor(M, v) == IF v.block # 0 THEN dec_weak_ref(M, v.block) ELSE M

\* The payload's destructor: destroys its weak_ptr member.  A null address
\* names no payload.
destroy_payload(M, b) ==
    IF M.blk[b].ptr = 0
    THEN M
    ELSE weak_ptr_dtor([M EXCEPT !.blk[b].link = NullPtr], M.blk[b].link)

\* delete_object that deletes the address instead of calling the stored deleter
regular_delete_object_default(M, b) ==
    destroy_payload(
        Log([M EXCEPT !.blk[b].nDefault = @ + 1], "deleter_default", b, M.blk[b].ptr), b)

\* regular_control_block::delete_object: the stored deleter on the stored address
regular_delete_object(M, b) ==
    LET d  == M.blk[b].del
        M1 == IF d = "custom"
              THEN Log([M EXCEPT !.blk[b].nCustom = @ + 1], "deleter_custom", b, M.blk[b].ptr)
              ELSE Log([M EXCEPT !.blk[b].nDefault = @ + 1], "deleter_default", b, M.blk[b].ptr)
    IN  destroy_payload(M1, b)

\* inplace_control_block::delete_object: the destructor on the embedded storage
inplace_delete_object(M, b) ==
    destroy_payload(Log([M EXCEPT !.blk[b].nDtor = @ + 1], "dtor_inplace", b, M.blk[b].ptr), b)

\* virtual void delete_object()
delete_object(M, b) ==
    LET M1 == Log([M EXCEPT !.blk[b].nDel = @ + 1], "delete_object", b, 0)
    IN  IF M1.blk[b].kind = "regular"
        THEN regular_delete_object(M1, b)
        ELSE inplace_delete_object(M1, b)

\* dec_ref with "if (counter-- == 0)": the payload is not destroyed at 1 -> 0
dec_ref_post_decrement(M, b, stale) ==
    LET M1 == Log([M EXCEPT !.blk[b].counter = @ - 1], "dec_ref", b, 0)
        M2 == IF M.blk[b].counter = 0 THEN delete_object(M1, b) ELSE M1
    IN  IF M2.blk[b].weak_counter = 0 /\ M2.blk[b].counter = 0
        THEN delete_this(M2, b)
        ELSE M2

\* dec_ref whose second if forgets weak_counter: the block goes with the payload
dec_ref_ignores_weak(M, b, stale) ==
    LET M1 == Log([M EXCEPT !.blk[b].counter = @ - 1], "dec_ref", b, 0)
        M2 == IF M1.blk[b].counter = 0 THEN delete_object(M1, b) ELSE M1
    IN  IF M2.blk[b].st = "live" /\ M2.blk[b].counter = 0
        THEN delete_this(M2, b)
        ELSE M2

\* control_block::dec_ref.  When delete_object() has freed the block (the
\* payload held its last weak pointer), the second if reads freed storage:
\* stale tells whether that read still finds both counters 0.
dec_ref(M, b, stale) ==
    LET M1 == Log([M EXCEPT !.blk[b].counter = @ - 1], "dec_ref", b, 0)
        M2 == IF M1.blk[b].counter = 0 THEN delete_object(M1, b) ELSE M1
    IN  IF M2.blk[b].st = "freed"
        THEN LET M3 == Log(M2, "uaf_read", b, 0)
             IN  IF stale THEN delete_this(M3, b) ELSE M3
        ELSE IF M2.blk[b].weak_counter = 0 /\ M2.blk[b].counter = 0
             THEN delete_this(M2, b)
             ELSE M2

\* size_t -> int, the return conversion of get_strong_count
ToInt(c) == IF c <= INT_MAX THEN c ELSE c - INT_MAX - INT_MAX - 2

\* control_block::get_strong_count
get_strong_count(b) == ToInt(blk[b].counter)

\* object_deleted that never reports the payload gone
object_deleted_never(M, b) == FALSE

\* control_block::object_deleted
object_deleted(M, b) == M.blk[b].counter = 0

-----------------------------------------------------------------------------
(* shared_ptr, on pointer values *)

\* a copy constructor that forgets inc_ref
shared_ptr_copy_no_retain(M, v) == M

\* shared_ptr(const shared_ptr& other): the new pointer has other's fields
shared_ptr_copy(M, v) == IF v.block # 0 THEN inc_ref(M, v.block) ELSE M

\* ~shared_ptr
shared_ptr_dtor(M, v, stale) == IF v.block # 0 THEN dec_ref(M, v.block, stale) ELSE M

\* new regular_control_block<Y, D>(ptr_, deleter) as block b
new_regular_control_block(M, b, a, d) ==
    Log([M EXCEPT !.blk[b] = control_block_ctor(
            [NoBlock EXCEPT !.kind = "regular", !.ptr = a, !.del = d])],
        "new_regular", b, a)

\* new inplace_control_block<T>(args...) as block b; get() is the embedded storage
new_inplace_control_block(M, b) ==
    Log([M EXCEPT !.blk[b] = control_block_ctor(
            [NoBlock EXCEPT !.kind = "inplace", !.ptr = b])],
        "new_inplace", b, b)

\* T* get() const
get(v) == v.ptr

\* an operator== that compares the blocks held
operator_eq_same_block(a, b) == a.block = b.block

\* bool operator==(const shared_ptr<T>& a, const shared_ptr<T>& b)
operator_eq(a, b) == get(a) = get(b)

\* bool operator!=(const shared_ptr<T>& a, const shared_ptr<T>& b)
operator_ne(a, b) == get(a) # get(b)

\* bool operator==(const shared_ptr<T>& a, const std::nullptr_t&), and mirrored
operator_eq_null(a) == get(a) = 0

\* bool operator!=(const shared_ptr<T>& a, const std::nullptr_t&), and mirrored
operator_ne_null(a) == get(a) # 0

\* std::size_t use_count() const: int converted back to size_t
use_count(v) == IF v.block = 0 THEN 0 ELSE get_strong_count(v.block)

\* a weak_ptr constructor that calls inc_ref instead of inc_weak_ref
weak_ptr_copy_retains_strong(M, v) == IF v.block # 0 THEN inc_ref(M, v.block) ELSE M

\* weak_ptr copy constructor and weak_ptr(const shared_ptr&)
weak_ptr_copy(M, v) == IF v.block # 0 THEN inc_weak_ref(M, v.block) ELSE M

-----------------------------------------------------------------------------
(* The client program *)

Cur == [blk |-> blk, sp |-> sp, wp |-> wp, ev |-> << >>]

Running == status = "running"

Record(M, op, a, b, out) ==
    [op |-> op, a |-> a, b |-> b, out |-> out, ev |-> M.ev,
     pre |-> [blk |-> blk, sp |-> sp, wp |-> wp]]

\* The statement completes; the program goes on, or the statement is observed.
Commit(M, op, a, b, out) ==
    /\ blk' = M.blk
    /\ sp' = M.sp
    /\ wp' = M.wp
    /\ \/ last' = last /\ status' = status
       \/ last' = Record(M, op, a, b, out) /\ status' = "observed"

\* The statement ends the process: the heap stays as the statement left it.
Stop(M, op, a, b, how) ==
    /\ blk' = M.blk
    /\ sp' = M.sp
    /\ wp' = M.wp
    /\ last' = Record(M, op, a, b, how)
    /\ status' = how

\* A new pointer object takes the lowest unused name; a new block the next identity.
FreeS == {i \in Strong : ~sp[i].live}
FreeW == {k \in Weak : ~wp[k].live}
FreeB == {b \in Blocks : blk[b].st = "unalloc"}
Lowest(S) == CHOOSE x \in S : \A y \in S : x <= y

Init ==
    /\ blk = [b \in Blocks |-> NoBlock]
    /\ sp = [i \in Strong |-> Dead]
    /\ wp = [k \in Weak |-> Dead]
    /\ last = [op |-> "none"]
    /\ status = "running"

\* pointer upcast to a first base class: the address is kept, null stays null
static_cast_ptr(a) == a

\* a throw leaving a noexcept function: std::terminate
noexcept_throw == "terminated"

\* block->member() through a null block pointer: the access faults
null_block_deref == "segv"

\* void swap(shared_ptr&): <<the argument's fields, this's fields>> afterwards
shared_ptr_swap(other, this) == <<Ptr(this.block, this.ptr), Ptr(other.block, other.ptr)>>

\* void swap(weak_ptr&)
weak_ptr_swap(other, this) == <<Ptr(this.block, this.ptr), Ptr(other.block, other.ptr)>>

\* copy assignment that releases its block before it retains other's, with
\* no test for self-assignment
shared_ptr_copy_assign_release_first(M, i, j, stale) ==
    LET M1  == shared_ptr_dtor(M, Val(M.sp[i]), stale)
        new == Val(M1.sp[j])
        M2  == shared_ptr_copy(M1, new)
    IN  [M2 EXCEPT !.sp[i] = Obj(new)]

\* shared_ptr& operator=(const shared_ptr& other), on pointer objects i and j
shared_ptr_copy_assign(M, i, j, stale) ==
    IF i = j
    THEN M
    ELSE LET tmp == Val(M.sp[j])
             M1  == shared_ptr_copy(M, tmp)
             sw  == shared_ptr_swap(Val(M1.sp[i]), tmp)
             M2  == [M1 EXCEPT !.sp[i] = Obj(sw[1])]
         IN  shared_ptr_dtor(M2, sw[2], stale)

\* a move assignment that leaves other's fields in place
shared_ptr_move_assign_keeps_source(M, i, j, stale) ==
    LET tmp == Val(M.sp[j])
        sw  == shared_ptr_swap(Val(M.sp[i]), tmp)
        M2  == [M EXCEPT !.sp[i] = Obj(sw[1])]
    IN  shared_ptr_dtor(M2, sw[2], stale)

\* shared_ptr& operator=(shared_ptr&& other)
shared_ptr_move_assign(M, i, j, stale) ==
    LET tmp == Val(M.sp[j])
        M1  == [M EXCEPT !.sp[j] = Obj(NullPtr)]
        sw  == shared_ptr_swap(Val(M1.sp[i]), tmp)
        M2  == [M1 EXCEPT !.sp[i] = Obj(sw[1])]
    IN  shared_ptr_dtor(M2, sw[2], stale)

\* a reset that drops the fields without releasing the block
shared_ptr_reset_no_release(M, i, stale) == [M EXCEPT !.sp[i] = Obj(NullPtr)]

\* void reset()
shared_ptr_reset(M, i, stale) ==
    LET sw == shared_ptr_swap(Val(M.sp[i]), NullPtr)
        M1 == [M EXCEPT !.sp[i] = Obj(sw[1])]
    IN  shared_ptr_dtor(M1, sw[2], stale)

\* void reset(X* new_ptr, D&& deleter), the allocation succeeding
shared_ptr_reset_raw(M, i, b, a, d, stale) ==
    LET M1 == new_regular_control_block(M, b, a, d)
        sw == shared_ptr_swap(Val(M1.sp[i]), Ptr(b, a))
        M2 == [M1 EXCEPT !.sp[i] = Obj(sw[1])]
    IN  shared_ptr_dtor(M2, sw[2], stale)

\* catch (...) { deleter.operator()(ptr_); throw; } : no block was created
raw_ctor_catch(M, a, d) ==
    Log(M, IF d = "custom" THEN "deleter_custom" ELSE "deleter_default", 0, a)

\* weak_ptr& operator=(const weak_ptr& other)
weak_ptr_copy_assign(M, k, l) ==
    IF k = l
    THEN M
    ELSE LET tmp == Val(M.wp[l])
             M1  == weak_ptr_copy(M, tmp)
             sw  == weak_ptr_swap(tmp, Val(M1.wp[k]))
             M2  == [M1 EXCEPT !.wp[k] = Obj(sw[2])]
         IN  weak_ptr_dtor(M2, sw[1])

\* weak_ptr& operator=(weak_ptr&& other)
weak_ptr_move_assign(M, k, l) ==
    LET tmp == Val(M.wp[l])
        M1  == [M EXCEPT !.wp[l] = Obj(NullPtr)]
        sw  == weak_ptr_swap(Val(M1.wp[k]), tmp)
        M2  == [M1 EXCEPT !.wp[k] = Obj(sw[1])]
    IN  weak_ptr_dtor(M2, sw[2])

\* weak_ptr& operator=(const shared_ptr& other)
weak_ptr_assign_shared(M, k, v) ==
    LET M1 == weak_ptr_copy(M, v)
        sw == weak_ptr_swap(v, Val(M1.wp[k]))
        M2 == [M1 EXCEPT !.wp[k] = Obj(sw[2])]
    IN  weak_ptr_dtor(M2, sw[1])

\* shared_ptr<T> lock() const: the fields of the pointer returned
lock_result(M, v) ==
    IF v.block = 0 \/ object_deleted(M, v.block) THEN NullPtr ELSE Ptr(v.block, v.ptr)

\* a lock() that hands out the block without inc_ref
weak_ptr_lock_no_retain(M, v) == M

\* lock(): its effect on the counters
weak_ptr_lock(M, v) ==
    IF v.block = 0 \/ object_deleted(M, v.block) THEN M ELSE inc_ref(M, v.block)

\* payload.link = other, through weak_ptr::operator=(const shared_ptr&)
link_assign(M, b, v) ==
    LET M1 == weak_ptr_copy(M, v)
        sw == weak_ptr_swap(v, M1.blk[b].link)
        M2 == [M1 EXCEPT !.blk[b].link = sw[2]]
    IN  weak_ptr_dtor(M2, sw[1])

-----------------------------------------------------------------------------
(* Statements on strong pointers *)

\* shared_ptr() / shared_ptr(nullptr)
DefaultConstruct ==
    /\ Running /\ FreeS # {}
    /\ LET i == Lowest(FreeS)
       IN  Commit([Cur EXCEPT !.sp[i] = Obj(NullPtr)], "default", i, 0, "ok")

\* shared_ptr(Y* ptr_, D&& deleter): ptr_ is a new object or null
ConstructRaw(null, d) ==
    /\ Running /\ FreeS # {} /\ FreeB # {}
    /\ LET i == Lowest(FreeS)
           b == Lowest(FreeB)
           a == IF null THEN 0 ELSE b
           M == new_regular_control_block(Cur, b, a, d)
       IN  Commit([M EXCEPT !.sp[i] = Obj(Ptr(b, a))], "raw", i, b, "ok")

\* the same with operator new throwing std::bad_alloc
ConstructRawFail(null, d) ==
    /\ Running /\ FreeS # {} /\ FreeB # {}
    /\ LET i == Lowest(FreeS)
           a == IF null THEN 0 ELSE Lowest(FreeB)
       IN  Stop(raw_ctor_catch(Cur, a, d), "raw", i, 0, noexcept_throw)

\* make_shared<T>(args...)
MakeShared ==
    /\ Running /\ FreeS # {} /\ FreeB # {}
    /\ LET i == Lowest(FreeS)
           b == Lowest(FreeB)
           M == new_inplace_control_block(Cur, b)
       IN  Commit([M EXCEPT !.sp[i] = Obj(Ptr(b, M.blk[b].ptr))], "make_shared", i, b, "ok")

\* make_shared with operator new throwing: the exception reaches the caller
MakeSharedFail ==
    /\ Running /\ FreeS # {} /\ FreeB # {}
    /\ Commit(Cur, "make_shared", 0, 0, "bad_alloc")

\* an aliasing constructor that takes r's block without inc_ref
AliasConstruct_no_retain(r, p) ==
    /\ Running /\ FreeS # {} /\ sp[r].live
    /\ LET i == Lowest(FreeS)
           v == Val(sp[r])
       IN  IF v.block = 0
           THEN Stop(Cur, "alias", i, r, null_block_deref)
           ELSE Commit([Cur EXCEPT !.sp[i] = Obj(Ptr(v.block, p))], "alias", i, r, "ok")

\* shared_ptr(const shared_ptr<Y>& r, T* ptr_), ptr_ the address of a member object
AliasConstruct(r, p) ==
    /\ Running /\ FreeS # {} /\ sp[r].live
    /\ LET i == Lowest(FreeS)
           v == Val(sp[r])
       IN  IF v.block = 0
           THEN Stop(Cur, "alias", i, r, null_block_deref)
           ELSE Commit([inc_ref(Cur, v.block) EXCEPT !.sp[i] = Obj(Ptr(v.block, p))],
                       "alias", i, r, "ok")

\* shared_ptr(const shared_ptr& other)
CopyConstruct(j) ==
    /\ Running /\ FreeS # {} /\ sp[j].live
    /\ LET i == Lowest(FreeS)
           v == Val(sp[j])
       IN  Commit([shared_ptr_copy(Cur, v) EXCEPT !.sp[i] = Obj(v)], "copy", i, j, "ok")

\* shared_ptr(shared_ptr&& other)
MoveConstruct(j) ==
    /\ Running /\ FreeS # {} /\ sp[j].live
    /\ LET i == Lowest(FreeS)
       IN  Commit([Cur EXCEPT !.sp[i] = Obj(Val(sp[j])), !.sp[j] = Obj(NullPtr)],
                  "move", i, j, "ok")

\* a = b
CopyAssign(i, j) ==
    /\ Running /\ sp[i].live /\ sp[j].live
    /\ \E M \in {shared_ptr_copy_assign(Cur, i, j, stale) : stale \in BOOLEAN} :
         Commit(M, "copy_assign", i, j, "ok")

\* a = std::move(b)
MoveAssign(i, j) ==
    /\ Running /\ sp[i].live /\ sp[j].live
    /\ \E M \in {shared_ptr_move_assign(Cur, i, j, stale) : stale \in BOOLEAN} :
         Commit(M, "move_assign", i, j, "ok")

\* a conversion that retains the block twice
Convert_retains_twice(j) ==
    /\ Running /\ FreeS # {} /\ sp[j].live
    /\ LET i == Lowest(FreeS)
           v == Val(sp[j])
           result == Ptr(v.block, static_cast_ptr(v.ptr))
       IN  IF v.block = 0
           THEN Stop(Cur, "convert", i, j, null_block_deref)
           ELSE Commit([inc_ref(inc_ref(Cur, v.block), v.block) EXCEPT !.sp[i] = Obj(result)],
                       "convert", i, j, "ok")

\* operator shared_ptr<Y>()
Convert(j) ==
    /\ Running /\ FreeS # {} /\ sp[j].live
    /\ LET i == Lowest(FreeS)
           v == Val(sp[j])
           result == Ptr(v.block, static_cast_ptr(v.ptr))
       IN  IF v.block = 0
           THEN Stop(Cur, "convert", i, j, null_block_deref)
           ELSE Commit([inc_ref(Cur, v.block) EXCEPT !.sp[i] = Obj(result)],
                       "convert", i, j, "ok")

\* a.swap(b)
Swap(i, j) ==
    /\ Running /\ sp[i].live /\ sp[j].live
    /\ LET sw == shared_ptr_swap(Val(sp[j]), Val(sp[i]))
       IN  Commit([Cur EXCEPT !.sp[j] = Obj(sw[1]), !.sp[i] = Obj(sw[2])],
                  "swap", i, j, "ok")

\* a.reset()
Reset(i) ==
    /\ Running /\ sp[i].live
    /\ \E M \in {shared_ptr_reset(Cur, i, stale) : stale \in BOOLEAN} :
         Commit(M, "reset", i, 0, "ok")

\* a.reset(new_ptr, deleter)
ResetRaw(i, null, d) ==
    /\ Running /\ sp[i].live /\ FreeB # {}
    /\ LET b == Lowest(FreeB)
           a == IF null THEN 0 ELSE b
       IN  \E M \in {shared_ptr_reset_raw(Cur, i, b, a, d, stale) : stale \in BOOLEAN} :
             Commit(M, "reset_raw", i, b, "ok")

\* a.reset(new_ptr, deleter) with operator new throwing
ResetRawFail(i, null, d) ==
    /\ Running /\ sp[i].live /\ FreeB # {}
    /\ LET a == IF null THEN 0 ELSE Lowest(FreeB)
       IN  Stop(raw_ctor_catch(Cur, a, d), "reset_raw", i, 0, noexcept_throw)

\* a's lifetime ends
Destroy(i) ==
    /\ Running /\ sp[i].live
    /\ \E M \in {shared_ptr_dtor([Cur EXCEPT !.sp[i] = Dead], Val(sp[i]), stale) :
                    stale \in BOOLEAN} :
         Commit(M, "destroy", i, 0, "ok")

\* what the client sees of == and != on the same operands
Verdict(eq, ne) ==
    IF eq /\ ~ne THEN "equal" ELSE IF ne /\ ~eq THEN "unequal" ELSE "inconsistent"

\* a == b and a != b
Compare(i, j) ==
    /\ Running /\ sp[i].live /\ sp[j].live
    /\ Commit(Cur, "compare", i, j,
              Verdict(operator_eq(Val(sp[i]), Val(sp[j])), operator_ne(Val(sp[i]), Val(sp[j]))))

\* a == nullptr and a != nullptr
CompareNull(i) ==
    /\ Running /\ sp[i].live
    /\ Commit(Cur, "compare_null", i, 0,
              Verdict(operator_eq_null(Val(sp[i])), operator_ne_null(Val(sp[i]))))

-----------------------------------------------------------------------------
(* Statements on weak pointers *)

\* weak_ptr()
WeakDefault ==
    /\ Running /\ FreeW # {}
    /\ LET k == Lowest(FreeW)
       IN  Commit([Cur EXCEPT !.wp[k] = Obj(NullPtr)], "w_default", k, 0, "ok")

\* weak_ptr(const weak_ptr& other)
WeakCopy(l) ==
    /\ Running /\ FreeW # {} /\ wp[l].live
    /\ LET k == Lowest(FreeW)
           v == Val(wp[l])
       IN  Commit([weak_ptr_copy(Cur, v) EXCEPT !.wp[k] = Obj(v)], "w_copy", k, l, "ok")

\* weak_ptr(weak_ptr&& other)
WeakMove(l) ==
    /\ Running /\ FreeW # {} /\ wp[l].live
    /\ LET k == Lowest(FreeW)
       IN  Commit([Cur EXCEPT !.wp[k] = Obj(Val(wp[l])), !.wp[l] = Obj(NullPtr)],
                  "w_move", k, l, "ok")

\* weak_ptr(const shared_ptr& other)
WeakFromShared(i) ==
    /\ Running /\ FreeW # {} /\ sp[i].live
    /\ LET k == Lowest(FreeW)
           v == Val(sp[i])
       IN  Commit([weak_ptr_copy(Cur, v) EXCEPT !.wp[k] = Obj(v)], "w_from_shared", k, i, "ok")

\* w = v
WeakCopyAssign(k, l) ==
    /\ Running /\ wp[k].live /\ wp[l].live
    /\ Commit(weak_ptr_copy_assign(Cur, k, l), "w_copy_assign", k, l, "ok")

\* w = std::move(v)
WeakMoveAssign(k, l) ==
    /\ Running /\ wp[k].live /\ wp[l].live
    /\ Commit(weak_ptr_move_assign(Cur, k, l), "w_move_assign", k, l, "ok")

\* w = a
WeakAssignShared(k, i) ==
    /\ Running /\ wp[k].live /\ sp[i].live
    /\ Commit(weak_ptr_assign_shared(Cur, k, Val(sp[i])), "w_assign_shared", k, i, "ok")

\* w.swap(v)
WeakSwap(k, l) ==
    /\ Running /\ wp[k].live /\ wp[l].live
    /\ LET sw == weak_ptr_swap(Val(wp[l]), Val(wp[k]))
       IN  Commit([Cur EXCEPT !.wp[l] = Obj(sw[1]), !.wp[k] = Obj(sw[2])],
                  "w_swap", k, l, "ok")

\* shared_ptr<T> a = w.lock()
Lock(k) ==
    /\ Running /\ FreeS # {} /\ wp[k].live
    /\ LET i == Lowest(FreeS)
           v == Val(wp[k])
           r == lock_result(Cur, v)
       IN  Commit([weak_ptr_lock(Cur, v) EXCEPT !.sp[i] = Obj(r)], "lock", i, k,
                  IF r.block = 0 THEN "null" ELSE "locked")

\* w's lifetime ends
WeakDestroy(k) ==
    /\ Running /\ wp[k].live
    /\ Commit(weak_ptr_dtor([Cur EXCEPT !.wp[k] = Dead], Val(wp[k])), "w_destroy", k, 0, "ok")

\* a->link = a : a addresses the payload of its block
LinkAssign(i) ==
    /\ Running /\ sp[i].live
    /\ sp[i].block # 0 /\ sp[i].ptr # 0 /\ sp[i].ptr = blk[sp[i].block].ptr
    /\ Commit(link_assign(Cur, sp[i].block, Val(sp[i])), "link_assign", i, i, "ok")

Next ==
    \/ DefaultConstruct
    \/ \E null \in BOOLEAN, d \in Deleters : ConstructRaw(null, d)
    \/ \E null \in BOOLEAN, d \in Deleters : ConstructRawFail(null, d)
    \/ MakeShared
    \/ MakeSharedFail
    \/ \E r \in Strong : AliasConstruct(r, SubObject)
    \/ \E j \in Strong : CopyConstruct(j)
    \/ \E j \in Strong : MoveConstruct(j)
    \/ \E i, j \in Strong : CopyAssign(i, j)
    \/ \E i, j \in Strong : MoveAssign(i, j)
    \/ \E j \in Strong : Convert(j)
    \/ \E i, j \in Strong : Swap(i, j)
    \/ \E i \in Strong : Reset(i)
    \/ \E i \in Strong, null \in BOOLEAN, d \in Deleters : ResetRaw(i, null, d)
    \/ \E i \in Strong, null \in BOOLEAN, d \in Deleters : ResetRawFail(i, null, d)
    \/ \E i \in Strong : Destroy(i)
    \/ \E i, j \in Strong : Compare(i, j)
    \/ \E i \in Strong : CompareNull(i)
    \/ WeakDefault
    \/ \E l \in Weak : WeakCopy(l)
    \/ \E l \in Weak : WeakMove(l)
    \/ \E i \in Strong : WeakFromShared(i)
    \/ \E k, l \in Weak : WeakCopyAssign(k, l)
    \/ \E k, l \in Weak : WeakMoveAssign(k, l)
    \/ \E k \in Weak, i \in Strong : WeakAssignShared(k, i)
    \/ \E k, l \in Weak : WeakSwap(k, l)
    \/ \E k \in Weak : Lock(k)
    \/ \E k \in Weak : WeakDestroy(k)
    \/ \E i \in Strong : LinkAssign(i)

Spec == Init /\ [][Next]_vars

-----------------------------------------------------------------------------
(* Counting the pointers of a state *)

Allocated == {b \in Blocks : blk[b].st # "unalloc"}
LiveBlocks == {b \in Blocks : blk[b].st = "live"}

\* live strong pointers that reference block b in heap h
StrongHolders(h, b) == {i \in Strong : h.sp[i].live /\ h.sp[i].block = b}
\* live weak pointers that reference block b in heap h: the client's and the payloads'
WeakHolders(h, b) == {k \in Weak : h.wp[k].live /\ h.wp[k].block = b}
LinkHolders(h, b) == {c \in Blocks : h.blk[c].link.block = b}
NumStrong(h, b) == Cardinality(StrongHolders(h, b))
NumWeak(h, b) == Cardinality(WeakHolders(h, b)) + Cardinality(LinkHolders(h, b))

Now == [blk |-> blk, sp |-> sp, wp |-> wp]
Observed == status = "observed"
Did(op) == Observed /\ last.op = op
EventAt(n, e, b) == last.ev[n].e = e /\ last.ev[n].b = b

StrongOps == {"default", "raw", "make_shared", "alias", "copy", "move", "copy_assign",
              "move_assign", "convert", "swap", "reset", "reset_raw", "destroy", "lock",
              "compare", "compare_null"}
WeakOps == {"w_default", "w_copy", "w_move", "w_from_shared", "w_copy_assign",
            "w_move_assign", "w_assign_shared", "w_swap", "w_destroy", "link_assign"}

-----------------------------------------------------------------------------
\* C1: between statements, use_count() of every live strong pointer is the
\* number of live strong pointers that reference its block, and 0 for a
\* pointer that holds no block.
C1_UseCountIsHolders ==
    \A i \in Strong :
        sp[i].live =>
            use_count(Val(sp[i])) =
                IF sp[i].block = 0 THEN 0 ELSE NumStrong(Now, sp[i].block)

\* C1 witness: a copy assignment between two pointer objects has just left
\* both holding one block, use_count() 2.
C1_Witness ==
    /\ Did("copy_assign") /\ last.a # last.b
    /\ sp[last.a].block # 0
    /\ sp[last.a].block = sp[last.b].block
    /\ last.pre.sp[last.a].block # sp[last.a].block
    /\ use_count(Val(sp[last.a])) = 2

\* C2: the payload of a block is destroyed exactly once: delete_object runs
\* at most once per block, it has run exactly when no strong pointer holds
\* the block any more, and a statement runs it only as the call that follows
\* the dec_ref taking the block's counter from 1 to 0.
C2_PayloadDestroyedOnce ==
    /\ \A b \in Allocated :
        /\ blk[b].nDel <= 1
        /\ (blk[b].nDel = 1) <=> (NumStrong(Now, b) = 0)
    /\ Observed =>
        /\ \A b \in Blocks :
              blk[b].nDel # last.pre.blk[b].nDel =>
                  /\ last.pre.blk[b].counter = 1
                  /\ blk[b].counter = 0
                  /\ blk[b].nDel = last.pre.blk[b].nDel + 1
        /\ \A n \in 1..Len(last.ev) :
              last.ev[n].e = "delete_object" =>
                  n > 1 /\ EventAt(n - 1, "dec_ref", last.ev[n].b)

\* C2 witness: the destructor of the last strong pointer has just destroyed
\* the payload.
C2_Witness ==
    /\ Did("destroy")
    /\ \E b \in Blocks : last.pre.blk[b].nDel = 0 /\ blk[b].nDel = 1

\* C3 (as claimed): every block is freed exactly once, at the release that
\* leaves both counters 0; never twice, and always once no pointer is left.
C3_BlockFreedOnce ==
    \A b \in Allocated :
        /\ blk[b].nFree <= 1
        /\ (blk[b].nFree = 1) <=> (NumStrong(Now, b) = 0 /\ NumWeak(Now, b) = 0)
        /\ blk[b].nFree = 1 => blk[b].counter = 0 /\ blk[b].weak_counter = 0

\* C4: when the last strong pointer goes while a weak pointer remains, the
\* payload is destroyed and the block stays allocated; a block is freed only
\* after its payload was destroyed, and no live pointer references a freed
\* block.
C4_BlockOutlivesPayload ==
    /\ \A b \in Allocated :
        /\ (NumStrong(Now, b) = 0 /\ NumWeak(Now, b) > 0) =>
              blk[b].nDel = 1 /\ blk[b].st = "live" /\ blk[b].nFree = 0
        /\ blk[b].st = "freed" => blk[b].nDel = 1
        /\ (NumStrong(Now, b) > 0 \/ NumWeak(Now, b) > 0) => blk[b].st = "live"
    /\ Observed =>
        \A n \in 1..Len(last.ev) :
            last.ev[n].e = "delete_this" =>
                \/ last.pre.blk[last.ev[n].b].nDel = 1
                \/ \E m \in 1..(n - 1) : EventAt(m, "delete_object", last.ev[n].b)

\* C4 witness: the last strong pointer has just been destroyed while a
\* client weak pointer remains: payload destroyed, block still allocated.
C4_Witness ==
    /\ Did("destroy")
    /\ \E b \in Blocks :
        /\ last.pre.blk[b].counter = 1 /\ blk[b].counter = 0
        /\ WeakHolders(Now, b) # {}
        /\ blk[b].nDel = 1 /\ blk[b].st = "live"

\* C5: lock() returns a pointer that holds the block exactly when a live
\* strong pointer references the weak pointer's block at the call, with the
\* weak pointer's address; a block whose counter was 0 before a statement
\* has counter 0 after it.
C5_LockIffStrongExists ==
    /\ Did("lock") =>
        LET w == last.pre.wp[last.b]
            r == sp[last.a]
        IN  /\ (r.block # 0) <=> (w.block # 0 /\ NumStrong(last.pre, w.block) > 0)
            /\ r.block # 0 => r.block = w.block /\ r.ptr = w.ptr
            /\ r.block = 0 => r.ptr = 0
            /\ (last.out = "locked") <=> (r.block # 0)
    /\ Observed =>
        \A b \in Blocks :
            (last.pre.blk[b].st # "unalloc" /\ last.pre.blk[b].counter = 0) =>
                blk[b].counter = 0 /\ NumStrong(Now, b) = 0

\* C5 witness: lock() on a weak pointer whose block has expired has just
\* returned the null pointer.
C5_Witness ==
    /\ Did("lock") /\ last.out = "null"
    /\ last.pre.wp[last.b].block # 0
    /\ blk[last.pre.wp[last.b].block].nDel = 1
    /\ sp[last.a].live /\ sp[last.a].block = 0

\* C6: a block made with a custom destroyer runs that destroyer, on the
\* stored address, exactly once when its last strong pointer goes, and
\* never the default deleter; a co-allocated block runs the in-place
\* destructor and no deleter.
C6_OwnVariantDestroys ==
    /\ \A b \in Allocated :
        /\ (blk[b].kind = "regular" /\ blk[b].del = "custom") =>
              blk[b].nCustom = blk[b].nDel /\ blk[b].nDefault = 0 /\ blk[b].nDtor = 0
        /\ (blk[b].kind = "regular" /\ blk[b].del = "default") =>
              blk[b].nDefault = blk[b].nDel /\ blk[b].nCustom = 0 /\ blk[b].nDtor = 0
        /\ blk[b].kind = "inplace" =>
              blk[b].nDtor = blk[b].nDel /\ blk[b].nCustom = 0 /\ blk[b].nDefault = 0
        /\ NumStrong(Now, b) = 0 => blk[b].nDel = 1
    /\ Observed =>
        \A n \in 1..Len(last.ev) :
            LET e == last.ev[n]
            IN  (e.e \in {"deleter_custom", "deleter_default", "dtor_inplace"} /\ e.b # 0) =>
                    /\ e.a = last.pre.blk[e.b].ptr \/ last.pre.blk[e.b].st = "unalloc"
                    /\ e.a = blk[e.b].ptr
                    /\ e.e = "deleter_custom" <=>
                          (blk[e.b].kind = "regular" /\ blk[e.b].del = "custom")

\* C6 witness: the last strong pointer to a custom-destroyer block has just
\* been destroyed and the destroyer has run once.
C6_Witness ==
    /\ Did("destroy")
    /\ \E b \in Blocks :
        /\ blk[b].kind = "regular" /\ blk[b].del = "custom" /\ blk[b].ptr # 0
        /\ last.pre.blk[b].nCustom = 0 /\ blk[b].nCustom = 1
        /\ \E n \in 1..Len(last.ev) :
              last.ev[n] = Ev("deleter_custom", b, blk[b].ptr)

\* the weak pointers owned by payloads that the observed statement destroyed
\* and that referenced block b
DiedWithPayload(b) ==
    {c \in Blocks : blk[c].nDel > last.pre.blk[c].nDel /\ last.pre.blk[c].link.block = b}

\* C7: weak_counter of a live block is the number of live weak pointers
\* that reference it.  A statement on strong pointers changes no
\* weak_counter, other than by the weak pointers that die inside a payload
\* it destroys; a statement on weak pointers changes no counter.
C7_WeakCountIsHolders ==
    /\ \A b \in LiveBlocks : blk[b].weak_counter = NumWeak(Now, b)
    /\ (Observed /\ last.op \in StrongOps) =>
        \A b \in LiveBlocks :
            last.pre.blk[b].st = "live" =>
                blk[b].weak_counter =
                    last.pre.blk[b].weak_counter - Cardinality(DiedWithPayload(b))
    /\ (Observed /\ last.op \in WeakOps) =>
        \A b \in Blocks : blk[b].counter = last.pre.blk[b].counter

\* C7 witness: a strong pointer has just been copied while a weak pointer
\* observes its block.
C7_Witness ==
    /\ Did("copy")
    /\ sp[last.a].block # 0
    /\ blk[sp[last.a].block].weak_counter = 1
    /\ WeakHolders(Now, sp[last.a].block) # {}
    /\ blk[sp[last.a].block].counter = last.pre.blk[sp[last.a].block].counter + 1

\* C8 (as claimed): the block reference and the stored address of every
\* strong pointer are both null or both non-null.
C8_BothNullOrNeither ==
    \A i \in Strong : sp[i].live => ((sp[i].block = 0) <=> (sp[i].ptr = 0))

\* C9 (as claimed): when the allocation of the control block fails, the
\* destroyer has run once on the address, no block was created, the receiver
\* is as before, and the caller gets the allocation failure.
C9_AllocFailurePropagates ==
    (status # "running" /\ last.op \in {"raw", "reset_raw"} /\ last.out # "ok") =>
        /\ Len(last.ev) = 1
        /\ last.ev[1].e \in {"deleter_custom", "deleter_default"} /\ last.ev[1].b = 0
        /\ blk = last.pre.blk /\ sp = last.pre.sp /\ wp = last.pre.wp
        /\ last.out = "bad_alloc"
        /\ status = "observed"

\* C10: p = p, for a strong and for a weak pointer, calls nothing and leaves
\* every pointer and every block as it was.
C10_SelfAssignNoOp ==
    (Observed /\ last.op \in {"copy_assign", "w_copy_assign"} /\ last.a = last.b) =>
        /\ Now = last.pre
        /\ last.ev = << >>

\* C10 witness: the only strong holder of a block has just been assigned to
\* itself.
C10_Witness ==
    /\ Did("copy_assign") /\ last.a = last.b
    /\ sp[last.a].block # 0
    /\ blk[sp[last.a].block].counter = 1
    /\ blk[sp[last.a].block].nDel = 0

-----------------------------------------------------------------------------
\* the number of calls of e on block b that the observed statement made
Calls(e, b) == Cardinality({n \in DOMAIN last.ev : EventAt(n, e, b)})
\* the number of calls of e that the observed statement made
CallsOf(e) == Cardinality({n \in DOMAIN last.ev : last.ev[n].e = e})

\* every strong pointer object but those in S is as before the statement
OtherStrongKept(S) == \A i \in Strong \ S : sp[i] = last.pre.sp[i]
\* every weak pointer object but those in S is as before the statement
OtherWeakKept(S) == \A k \in Weak \ S : wp[k] = last.pre.wp[k]

\* move construction and swap, of strong and of weak pointers
MoveConstructAndSwapFrame ==
    /\ Did("move") =>
        /\ sp[last.a] = Obj(Val(last.pre.sp[last.b]))
        /\ sp[last.b] = Obj(NullPtr)
        /\ OtherStrongKept({last.a, last.b})
        /\ blk = last.pre.blk /\ wp = last.pre.wp /\ last.ev = << >>
    /\ Did("w_move") =>
        /\ wp[last.a] = Obj(Val(last.pre.wp[last.b]))
        /\ wp[last.b] = Obj(NullPtr)
        /\ OtherWeakKept({last.a, last.b})
        /\ blk = last.pre.blk /\ sp = last.pre.sp /\ last.ev = << >>
    /\ Did("swap") =>
        /\ sp[last.a] = last.pre.sp[last.b]
        /\ sp[last.b] = last.pre.sp[last.a]
        /\ OtherStrongKept({last.a, last.b})
        /\ blk = last.pre.blk /\ wp = last.pre.wp /\ last.ev = << >>
    /\ Did("w_swap") =>
        /\ wp[last.a] = last.pre.wp[last.b]
        /\ wp[last.b] = last.pre.wp[last.a]
        /\ OtherWeakKept({last.a, last.b})
        /\ blk = last.pre.blk /\ sp = last.pre.sp /\ last.ev = << >>

\* a = std::move(b) on strong pointers: b's fields go to a, b is left null,
\* the block a held is released once and no other block is touched
StrongMoveAssignFrame ==
    LET old == last.pre.sp[last.a].block
    IN  /\ sp[last.a] = Obj(Val(last.pre.sp[last.b]))
        /\ sp[last.b] = Obj(NullPtr)
        /\ OtherStrongKept({last.a, last.b})
        /\ wp = last.pre.wp
        /\ CallsOf("inc_ref") = 0
        /\ CallsOf("dec_ref") = IF old = 0 THEN 0 ELSE 1
        /\ \A c \in Blocks :
            IF c = old
            THEN Calls("dec_ref", c) = 1 /\ blk[c].counter = last.pre.blk[c].counter - 1
            ELSE blk[c] = last.pre.blk[c]

\* w = std::move(v) on weak pointers
WeakMoveAssignFrame ==
    LET old == last.pre.wp[last.a].block
    IN  /\ wp[last.a] = Obj(Val(last.pre.wp[last.b]))
        /\ wp[last.b] = Obj(NullPtr)
        /\ OtherWeakKept({last.a, last.b})
        /\ sp = last.pre.sp
        /\ CallsOf("inc_weak_ref") = 0
        /\ CallsOf("dec_weak_ref") = IF old = 0 THEN 0 ELSE 1
        /\ \A c \in Blocks :
            IF c = old
            THEN /\ Calls("dec_weak_ref", c) = 1
                 /\ blk[c].weak_counter = last.pre.blk[c].weak_counter - 1
                 /\ blk[c].counter = last.pre.blk[c].counter
            ELSE blk[c] = last.pre.blk[c]

\* C11 (as claimed): move construction transfers block and address, leaves
\* the source null and changes no counter; every move assignment does the
\* same and releases once the block the receiver held; swap exchanges the
\* fields and changes no counter.
C11_MoveTransfers ==
    /\ MoveConstructAndSwapFrame
    /\ Did("move_assign") => StrongMoveAssignFrame
    /\ Did("w_move_assign") => WeakMoveAssignFrame

\* C11 (amended): move construction transfers block and address, leaves the
\* source null and changes no counter; move assignment between two distinct
\* pointer objects does the same and releases exactly once the block the
\* receiver held before; a pointer move-assigned to itself, and every
\* counter, is left as it was; swap exchanges the fields and changes no
\* counter.
C11_MoveTransfersDistinct ==
    /\ MoveConstructAndSwapFrame
    /\ (Did("move_assign") /\ last.a # last.b) => StrongMoveAssignFrame
    /\ (Did("w_move_assign") /\ last.a # last.b) => WeakMoveAssignFrame
    /\ (Observed /\ last.op \in {"move_assign", "w_move_assign"} /\ last.a = last.b) =>
        /\ Now = last.pre
        /\ last.ev = << >>

\* C11 witness: a = std::move(b) where a was the last holder of another
\* block: the payload of that block has just been destroyed.
C11_Witness ==
    /\ Did("move_assign") /\ last.a # last.b
    /\ last.pre.sp[last.a].block # 0
    /\ last.pre.sp[last.b].block # 0
    /\ last.pre.sp[last.b].block # last.pre.sp[last.a].block
    /\ blk[last.pre.sp[last.a].block].nDel = 1
    /\ sp[last.a].block = last.pre.sp[last.b].block

-----------------------------------------------------------------------------
\* live strong pointers that address a member object rather than the payload
AliasingPointers == {i \in Strong : sp[i].live /\ sp[i].block # 0 /\ get(Val(sp[i])) = SubObject}

\* C12: aliasing construction from a strong pointer r that holds a block,
\* with address p, makes one inc_ref call: the new pointer holds r's block and
\* get() gives p, the block's strong count is one more, r and everything
\* else is as before; and as long as an aliasing pointer holds a block, the
\* block is live and its payload has not been destroyed, whoever else
\* released it.
C12_AliasKeepsRootAlive ==
    /\ Did("alias") =>
        LET r == last.pre.sp[last.b]
        IN  /\ sp[last.a].live
            /\ sp[last.a].block = r.block
            /\ get(Val(sp[last.a])) = SubObject
            /\ last.ev = <<Ev("inc_ref", r.block, 0)>>
            /\ blk = [last.pre.blk EXCEPT ![r.block].counter = @ + 1]
            /\ sp[last.b] = r
            /\ OtherStrongKept({last.a})
            /\ wp = last.pre.wp
    /\ \A i \in AliasingPointers :
        /\ blk[sp[i].block].st = "live"
        /\ blk[sp[i].block].nDel = 0
        /\ blk[sp[i].block].counter >= 1

\* C12 witness: the last pointer that addressed the payload itself has just
\* been destroyed; only an aliasing pointer still holds the block.
C12_Witness ==
    /\ Did("destroy")
    /\ LET b == last.pre.sp[last.a].block
       IN  /\ b # 0
           /\ get(Val(last.pre.sp[last.a])) = blk[b].ptr
           /\ StrongHolders(Now, b) # {}
           /\ StrongHolders(Now, b) \subseteq AliasingPointers
           /\ blk[b].nDel = 0

-----------------------------------------------------------------------------
\* C13: conversion of a strong pointer that holds a block to a related
\* pointer type makes one inc_ref call: the result holds the same block and
\* the converted address, the strong count is one more than before (not
\* unchanged, not two more), the source and everything else is as before;
\* destroying a pointer that holds a block makes one dec_ref call and the
\* count of its block is one less.
C13_ConvertRetainsOnce ==
    /\ Did("convert") =>
        LET src == last.pre.sp[last.b]
        IN  /\ sp[last.a] = Obj(Ptr(src.block, static_cast_ptr(src.ptr)))
            /\ CallsOf("inc_ref") = 1 /\ Len(last.ev) = 1
            /\ blk[src.block].counter = last.pre.blk[src.block].counter + 1
            /\ blk[src.block].counter >= 2
            /\ blk = [last.pre.blk EXCEPT ![src.block].counter = @ + 1]
            /\ sp[last.b] = src
            /\ OtherStrongKept({last.a})
            /\ wp = last.pre.wp
    /\ (Did("destroy") /\ last.pre.sp[last.a].block # 0) =>
        LET b == last.pre.sp[last.a].block
        IN  /\ CallsOf("dec_ref") = 1 /\ Calls("dec_ref", b) = 1
            /\ CallsOf("inc_ref") = 0
            /\ blk[b].counter = last.pre.blk[b].counter - 1
            /\ ~sp[last.a].live

\* C13 witness: a conversion has just given a second holder to a block that
\* had one.
C13_Witness ==
    /\ Did("convert")
    /\ sp[last.a].block # 0
    /\ last.pre.blk[sp[last.a].block].counter = 1
    /\ use_count(Val(sp[last.a])) = 2
    /\ use_count(Val(sp[last.b])) = 2

-----------------------------------------------------------------------------
\* the heap before the observed statement
Before == [blk |-> last.pre.blk, sp |-> last.pre.sp, wp |-> last.pre.wp, ev |-> << >>]

\* the observed statement released block old once, as ~shared_ptr does: one
\* dec_ref, the count one less, delete_object exactly when the count reached
\* 0, the block freed exactly when both counts are 0
ReleasedLikeDestruction(old) ==
    /\ CallsOf("dec_ref") = 1 /\ Calls("dec_ref", old) = 1
    /\ CallsOf("inc_ref") = 0
    /\ blk[old].counter = last.pre.blk[old].counter - 1
    /\ Calls("delete_object", old) = IF blk[old].counter = 0 THEN 1 ELSE 0
    /\ blk[old].nDel = last.pre.blk[old].nDel + Calls("delete_object", old)
    /\ (blk[old].st = "freed") <=> (blk[old].counter = 0 /\ blk[old].weak_counter = 0)
    /\ \E stale \in BOOLEAN :
        blk[old] = shared_ptr_dtor(Before, Val(last.pre.sp[last.a]), stale).blk[old]

\* C14: reset() on a pointer that holds a block releases it as destruction
\* does and leaves the pointer with null block, null address and
\* use_count() 0; reset(address, deleter) first creates a regular block with
\* strong count 1 and weak count 0, releases the old block the same way and
\* leaves the pointer the only holder of the new block; reset() on a pointer
\* without a block calls nothing and changes nothing.
C14_ResetReleases ==
    /\ Did("reset") =>
        LET old == last.pre.sp[last.a].block
        IN  /\ sp[last.a] = Obj(NullPtr)
            /\ use_count(Val(sp[last.a])) = 0
            /\ OtherStrongKept({last.a})
            /\ wp = last.pre.wp
            /\ \A c \in Blocks \ {old} : blk[c] = last.pre.blk[c]
            /\ IF old = 0
               THEN Now = last.pre /\ last.ev = << >>
               ELSE ReleasedLikeDestruction(old)
    /\ (Did("reset_raw") /\ last.out = "ok") =>
        LET old == last.pre.sp[last.a].block
            new == last.b
        IN  /\ last.pre.blk[new].st = "unalloc"
            /\ last.ev[1].e = "new_regular" /\ last.ev[1].b = new
            /\ CallsOf("new_regular") = 1 /\ CallsOf("new_inplace") = 0
            /\ blk[new].st = "live" /\ blk[new].kind = "regular"
            /\ blk[new].counter = 1 /\ blk[new].weak_counter = 0
            /\ sp[last.a] = Obj(Ptr(new, blk[new].ptr))
            /\ StrongHolders(Now, new) = {last.a}
            /\ NumWeak(Now, new) = 0
            /\ OtherStrongKept({last.a})
            /\ wp = last.pre.wp
            /\ \A c \in Blocks \ {old, new} : blk[c] = last.pre.blk[c]
            /\ IF old = 0
               THEN Len(last.ev) = 1
               ELSE ReleasedLikeDestruction(old)

\* C14 witness: reset(address, deleter) on the last holder of a block: the
\* old payload has been destroyed, the old block freed, and the pointer owns
\* the new block.
C14_Witness ==
    /\ Did("reset_raw") /\ last.out = "ok"
    /\ last.pre.sp[last.a].block # 0
    /\ blk[last.pre.sp[last.a].block].nDel = 1
    /\ blk[last.pre.sp[last.a].block].st = "freed"
    /\ sp[last.a].block = last.b

-----------------------------------------------------------------------------
\* the statements that create a control block
Creators == {"raw", "make_shared", "reset_raw"}

\* C15: a statement creates a block only by construction from a raw address
\* (or reset to one) and by make_shared, and then exactly one: the block
\* starts with strong count 1 and weak count 0 and the statement's pointer
\* is its only holder.  From a raw address it is a regular block whose
\* stored address is the pointer's address; make_shared makes one inplace
\* block in its only allocation, and returns a pointer with use_count() 1
\* whose get() is the address of the block's embedded, undestroyed payload.
C15_BlockCreatedOwnedOnce ==
    /\ (Observed /\ last.op \in Creators /\ last.out = "ok") =>
        LET b == last.b
        IN  /\ last.pre.blk[b].st = "unalloc"
            /\ CallsOf("new_regular") + CallsOf("new_inplace") = 1
            /\ Allocated = {c \in Blocks : last.pre.blk[c].st # "unalloc"} \cup {b}
            /\ blk[b].st = "live"
            /\ blk[b].counter = 1 /\ blk[b].weak_counter = 0
            /\ StrongHolders(Now, b) = {last.a}
            /\ NumWeak(Now, b) = 0
            /\ blk[b].nDel = 0 /\ blk[b].nFree = 0
            /\ IF last.op = "make_shared"
               THEN /\ blk[b].kind = "inplace"
                    /\ last.ev = <<Ev("new_inplace", b, blk[b].ptr)>>
                    /\ use_count(Val(sp[last.a])) = 1
                    /\ get(Val(sp[last.a])) = blk[b].ptr
                    /\ blk[b].ptr # 0
                    /\ blk[b].nDtor = 0
               ELSE /\ blk[b].kind = "regular"
                    /\ Calls("new_regular", b) = 1
                    /\ blk[b].ptr = get(Val(sp[last.a]))
                    /\ use_count(Val(sp[last.a])) = 1
    /\ (Observed /\ ~(last.op \in Creators /\ last.out = "ok")) =>
        /\ CallsOf("new_regular") + CallsOf("new_inplace") = 0
        /\ Allocated = {c \in Blocks : last.pre.blk[c].st # "unalloc"}

\* C15 witness: make_shared has just created a second block beside one that
\* was constructed from a raw address.
C15_Witness ==
    /\ Did("make_shared") /\ last.out = "ok"
    /\ \E c \in Blocks \ {last.b} : last.pre.blk[c].st = "live" /\ blk[c].kind = "regular"
    /\ use_count(Val(sp[last.a])) = 1

-----------------------------------------------------------------------------
\* C16: a == b holds, and a != b fails, exactly when the two stored
\* addresses are equal, whatever blocks the pointers hold: different blocks
\* with different addresses and one block with different addresses compare
\* unequal, pointers with the same fields compare equal; a == nullptr holds
\* exactly when the stored address is null, so for a pointer with default
\* fields; a comparison makes no call and changes no pointer and no block.
C16_EqualByAddress ==
    /\ Did("compare") =>
        LET a == sp[last.a]
            b == sp[last.b]
        IN  /\ last.out \in {"equal", "unequal"}
            /\ (last.out = "equal") <=> (a.ptr = b.ptr)
            /\ (a.block # b.block /\ a.ptr # b.ptr) => last.out = "unequal"
            /\ (a.block = b.block /\ a.ptr # b.ptr) => last.out = "unequal"
            /\ (a = b) => last.out = "equal"
            /\ Now = last.pre /\ last.ev = << >>
    /\ Did("compare_null") =>
        /\ last.out \in {"equal", "unequal"}
        /\ (last.out = "equal") <=> (sp[last.a].ptr = 0)
        /\ (sp[last.a] = Obj(NullPtr)) => last.out = "equal"
        /\ Now = last.pre /\ last.ev = << >>

\* C16 witness: a pointer and an aliasing pointer that share one block have
\* just compared unequal.
C16_Witness ==
    /\ Did("compare")
    /\ sp[last.a].block # 0
    /\ sp[last.a].block = sp[last.b].block
    /\ sp[last.a].ptr # sp[last.b].ptr
    /\ last.out = "unequal"
    /\ blk[sp[last.a].block].counter = 2

-----------------------------------------------------------------------------
\* C17: a = b on two distinct strong pointer objects leaves a with b's block
\* and address and b as it was.  b's block, if any, is retained once and a's
\* previous block, if any, released once, every retain before every release.
\* When the two blocks differ, b's block has one more strong holder and a's
\* previous block one fewer; its payload is destroyed exactly when that
\* count reaches 0 and the block is then freed exactly when its weak count
\* is 0 too.  When a and b already share a block, its counters are as
\* before and its payload is not destroyed.
C17_CopyAssignRetainsThenReleases ==
    (Did("copy_assign") /\ last.a # last.b) =>
        LET X == last.pre.sp[last.a].block
            Y == last.pre.sp[last.b].block
        IN  /\ sp[last.a] = last.pre.sp[last.b]
            /\ sp[last.b] = last.pre.sp[last.b]
            /\ OtherStrongKept({last.a})
            /\ wp = last.pre.wp
            /\ CallsOf("inc_ref") = IF Y = 0 THEN 0 ELSE 1
            /\ CallsOf("dec_ref") = IF X = 0 THEN 0 ELSE 1
            /\ Y # 0 => Calls("inc_ref", Y) = 1
            /\ X # 0 => Calls("dec_ref", X) = 1
            /\ \A m, n \in DOMAIN last.ev :
                (last.ev[m].e = "inc_ref" /\ last.ev[n].e = "dec_ref") => m < n
            /\ \A c \in Blocks \ {X, Y} : blk[c] = last.pre.blk[c]
            /\ IF X = Y
               THEN /\ blk = last.pre.blk
                    /\ CallsOf("delete_object") = 0
               ELSE /\ Y # 0 => blk[Y] = [last.pre.blk[Y] EXCEPT !.counter = @ + 1]
                    /\ X # 0 =>
                        /\ blk[X].counter = last.pre.blk[X].counter - 1
                        /\ Calls("delete_object", X) = IF blk[X].counter = 0 THEN 1 ELSE 0
                        /\ blk[X].nDel = Calls("delete_object", X)
                        /\ (blk[X].st = "freed") <=>
                               (blk[X].counter = 0 /\ blk[X].weak_counter = 0)

\* C17 witness: a = b where a was the last holder of another block, which a
\* weak pointer still references: the payload is gone, the block is kept.
C17_Witness ==
    /\ Did("copy_assign") /\ last.a # last.b
    /\ LET X == last.pre.sp[last.a].block
           Y == last.pre.sp[last.b].block
       IN  /\ X # 0 /\ Y # 0 /\ X # Y
           /\ blk[X].nDel = 1 /\ blk[X].st = "live" /\ blk[X].weak_counter > 0
           /\ blk[Y].counter = 2

-----------------------------------------------------------------------------
\* C18: lock() on a weak pointer whose block still has a strong holder makes
\* one inc_ref call: the block's strong count is one more, its weak count
\* and the weak pointer are as before, and the pointer returned has the weak
\* pointer's block and address.  lock() on a weak pointer without a block,
\* or whose block has no strong holder left, makes no call, changes no
\* block, and returns a pointer with null block and null address; destroying
\* a pointer without a block makes no call and changes no block.
C18_LockFrame ==
    /\ Did("lock") =>
        LET w == last.pre.wp[last.b]
            live == w.block # 0 /\ last.pre.blk[w.block].counter > 0
        IN  /\ wp = last.pre.wp
            /\ OtherStrongKept({last.a})
            /\ IF live
               THEN /\ last.out = "locked"
                    /\ sp[last.a] = Obj(Ptr(w.block, w.ptr))
                    /\ last.ev = <<Ev("inc_ref", w.block, 0)>>
                    /\ blk = [last.pre.blk EXCEPT ![w.block].counter = @ + 1]
                    /\ blk[w.block].weak_counter = last.pre.blk[w.block].weak_counter
               ELSE /\ last.out = "null"
                    /\ sp[last.a] = Obj(NullPtr)
                    /\ last.ev = << >>
                    /\ blk = last.pre.blk
    /\ (Did("destroy") /\ last.pre.sp[last.a].block = 0) =>
        /\ last.ev = << >>
        /\ blk = last.pre.blk /\ wp = last.pre.wp
        /\ OtherStrongKept({last.a})

\* C18 witness: lock() on a weak pointer whose block lost its last strong
\* holder has just returned an empty pointer; the block is still allocated.
C18_Witness ==
    /\ Did("lock") /\ last.out = "null"
    /\ wp[last.b].block # 0
    /\ blk[wp[last.b].block].st = "live"
    /\ blk[wp[last.b].block].counter = 0
    /\ blk[wp[last.b].block].nDel = 1

-----------------------------------------------------------------------------
\* the observed statement destroyed the payload of block b, and the payload's
\* destructor then dropped a weak pointer to b
PayloadDroppedWeak(b) ==
    \E m, n \in DOMAIN last.ev :
        m < n /\ EventAt(m, "delete_object", b) /\ EventAt(n, "dec_weak_ref", b)

\* C19 (as claimed): when the destruction of a payload inside dec_ref
\* destroys weak pointers to the payload's own block, the last one included,
\* dec_ref reads no field of the block after it was freed, and the block is
\* freed at most once by the statement and once in all.
C19_ReentrantReleaseSafe ==
    Observed =>
        \A b \in Blocks :
            PayloadDroppedWeak(b) =>
                /\ Calls("uaf_read", b) = 0
                /\ Calls("delete_this", b) <= 1
                /\ blk[b].nFree <= 1

\* the operations that take a pointer as their source, by the kind of the
\* source and of the result
FromStrongToStrong == {"copy", "copy_assign", "alias", "convert"}
FromStrongToWeak == {"w_from_shared", "w_assign_shared"}
FromWeakToWeak == {"w_copy", "w_copy_assign"}

\* no call was made that retains a block
NoRetain == CallsOf("inc_ref") = 0 /\ CallsOf("inc_weak_ref") = 0

\* C20 (as claimed): no operation dereferences a null block, and an
\* operation whose source pointer holds no block retains nothing and yields
\* a pointer that holds no block.
C20_EmptySourceSafe ==
    /\ status # null_block_deref
    /\ (Observed /\ last.op \in FromStrongToStrong /\ last.pre.sp[last.b].block = 0) =>
        NoRetain /\ sp[last.a].block = 0
    /\ (Observed /\ last.op \in FromStrongToWeak /\ last.pre.sp[last.b].block = 0) =>
        NoRetain /\ wp[last.a].block = 0
    /\ (Observed /\ last.op \in FromWeakToWeak /\ last.pre.wp[last.b].block = 0) =>
        NoRetain /\ wp[last.a].block = 0
    /\ (Did("lock") /\ last.pre.wp[last.b].block = 0) =>
        NoRetain /\ sp[last.a].block = 0

====
